---- MODULE Spec2Model ----
(***************************************************************************)
(* A model of the CGI gateway of caddy-cgi: the Windows-tolerant header    *)
(* parser and request handler of windows_cgi.go, and the chunked-body      *)
(* reframing of cgi.go.                                                     *)
(*                                                                         *)
(* A byte is a one-character string; a Go string or []byte is a sequence   *)
(* of such bytes.                                                          *)
(***************************************************************************)
EXTENDS Integers, Sequences, FiniteSets, TLC

\* ------------------------------------------------------------ bounds
\* Longest raw stdout stream enumerated by InitParse.
MaxLen == 5
\* Longest Status value enumerated by InitStatus.
MaxValLen == 3
\* Capacity, in bytes, of each of the subprocess stdout and stderr pipes.
PipeCap == 2

\* -------------------------------------------------------- bytes, strings
CR == "\r"
LF == "\n"
Colon == ":"

LowerCase == <<"a", "b", "c", "d", "e", "f", "g", "h", "i", "j", "k", "l", "m", "n", "o", "p", "q", "r", "s", "t", "u", "v", "w", "x", "y", "z">>
UpperCase == <<"A", "B", "C", "D", "E", "F", "G", "H", "I", "J", "K", "L", "M", "N", "O", "P", "Q", "R", "S", "T", "U", "V", "W", "X", "Y", "Z">>
Digits == <<"0", "1", "2", "3", "4", "5", "6", "7", "8", "9">>

RECURSIVE Cat(_)
\* The concatenation of a sequence of byte strings.
Cat(ss) == IF ss = <<>> THEN <<>> ELSE Head(ss) \o Cat(Tail(ss))

\* All byte strings over S of length at most n.
SeqsUpTo(S, n) == UNION {[1..k -> S] : k \in 0..n}

IsUpper(c) == \E i \in 1..26 : UpperCase[i] = c
IsLower(c) == \E i \in 1..26 : LowerCase[i] = c
IsDigit(c) == \E i \in 1..10 : Digits[i] = c

\* strings.ToLower / strings.ToUpper on ASCII bytes.
ToLowerByte(c) == IF IsUpper(c) THEN LowerCase[CHOOSE i \in 1..26 : UpperCase[i] = c] ELSE c
ToUpperByte(c) == IF IsLower(c) THEN UpperCase[CHOOSE i \in 1..26 : LowerCase[i] = c] ELSE c
ToLower(s) == [i \in 1..Len(s) |-> ToLowerByte(s[i])]
ToUpper(s) == [i \in 1..Len(s) |-> ToUpperByte(s[i])]

\* strings.ReplaceAll(s, old, new) for one-byte old and new.
ReplaceAll(s, old, new) == [i \in 1..Len(s) |-> IF s[i] = old THEN new ELSE s[i]]

\* The white space strings.TrimSpace removes (ASCII part).
IsSpace(c) == c \in {" ", "\t", "\n", "\r", "\f"}

RECURSIVE TrimLeft(_)
TrimLeft(s) == IF s # <<>> /\ IsSpace(Head(s)) THEN TrimLeft(Tail(s)) ELSE s
RECURSIVE TrimRight(_)
TrimRight(s) ==
    IF s # <<>> /\ IsSpace(s[Len(s)]) THEN TrimRight(SubSeq(s, 1, Len(s) - 1)) ELSE s
\* strings.TrimSpace.
TrimSpace(s) == TrimRight(TrimLeft(s))

\* strings.Index(s, c) + 1 for a one-byte c: the first position of c in s, 0 if none.
IndexByte(s, c) ==
    IF \E i \in 1..Len(s) : s[i] = c
    THEN CHOOSE i \in 1..Len(s) : s[i] = c /\ \A j \in 1..(i - 1) : s[j] # c
    ELSE 0

DigitVal(c) == (CHOOSE i \in 1..10 : Digits[i] = c) - 1

RECURSIVE DecVal(_)
\* The value of a string of decimal digits.
DecVal(s) == IF s = <<>> THEN 0 ELSE 10 * DecVal(SubSeq(s, 1, Len(s) - 1)) + DigitVal(s[Len(s)])

\* strconv.Atoi: an optional sign, then one or more decimal digits.
AtoiBody(s) == IF s # <<>> /\ Head(s) \in {"+", "-"} THEN Tail(s) ELSE s
AtoiOk(s) == AtoiBody(s) # <<>> /\ \A i \in 1..Len(AtoiBody(s)) : IsDigit(AtoiBody(s)[i])
Atoi(s) == IF s # <<>> /\ Head(s) = "-" THEN 0 - DecVal(AtoiBody(s)) ELSE DecVal(AtoiBody(s))

RECURSIVE FormatNat(_)
FormatNat(n) == IF n < 10 THEN <<Digits[n + 1]>> ELSE Append(FormatNat(n \div 10), Digits[(n % 10) + 1])
\* strconv.FormatInt(n, 10).
FormatInt(n) == IF n < 0 THEN <<"-">> \o FormatNat(0 - n) ELSE FormatNat(n)

\* ------------------------------------------------------------ state
VARIABLES
    \* the subprocess
    prog,        \* what the CGI program has still to write: stdout bytes and ERR marks
    stream,      \* the whole stdout of the program, fixed at construction
    procState,   \* "none" | "running" | "exited"
    stdoutPipe,  \* bytes written to stdout and not yet read by the gateway
    stderrPipe,  \* number of bytes written to stderr and not yet drained
    \* WindowsCGIHandler.ServeHTTP
    pc,          \* position of the handler
    hasStderr,   \* h.Stderr != nil
    drainer,     \* the stderr goroutine: "none" | "running" | "done"
    sinkLen,     \* bytes copied into h.Stderr
    pipesClosed, \* cmd.Wait has closed the read ends of the pipes
    line,        \* readWindowsLine: the pending line
    linesRead,   \* the lines readWindowsLine has returned
    headers,     \* parseWindowsHeaders: the header mapping
    statusCode,  \* parseWindowsHeaders: the status
    ranged,      \* keys of headers the range loop has visited
    resp         \* what has been sent to the http.ResponseWriter, in order

gwVars == <<prog, stream, procState, stdoutPipe, stderrPipe, pc, hasStderr, drainer,
            sinkLen, pipesClosed, line, linesRead, headers, statusCode, ranged, resp>>

\* The resources of the request and what the environment does to it.
VARIABLES
    fault,      \* what goes wrong in this request, if anything
    openPipes,  \* the pipe ends the gateway holds open
    pooled      \* the deferred bufPool.Put(errorBuffer) has run

lifeVars == <<fault, openPipes, pooled>>

\* A stderr write in the script of the program.
ERR == "ERR"

\* parseWindowsHeaders: statusCode := 200.
DefaultStatus == 200
\* http.StatusInternalServerError.
StatusInternalServerError == 500

\* ------------------------------------------------- http.Header (a Go map)
\* A byte net/textproto accepts in a header field name.
ValidHeaderFieldByte(c) ==
    IsUpper(c) \/ IsLower(c) \/ IsDigit(c)
      \/ c \in {"!", "#", "$", "%", "&", "*", "+", "-", ".", "^", "_", "|", "~"}

\* textproto.CanonicalMIMEHeaderKey: a name made of field bytes gets an upper-case
\* first letter and upper case after each dash, lower case elsewhere; any other
\* name is left as it is.
CanonicalMIMEHeaderKey(k) ==
    IF \A i \in 1..Len(k) : ValidHeaderFieldByte(k[i])
    THEN [i \in 1..Len(k) |->
            IF i = 1 \/ k[i - 1] = "-" THEN ToUpperByte(k[i]) ELSE ToLowerByte(k[i])]
    ELSE k

\* The empty mapping, make(http.Header).
EmptyHeader == [k \in {} |-> <<>>]

\* http.Header.Add mistaken for http.Header.Set: the value replaces the others.
HeaderAdd_Set(h, key, value) ==
    [x \in DOMAIN h \cup {CanonicalMIMEHeaderKey(key)} |->
        IF x = CanonicalMIMEHeaderKey(key) THEN <<value>> ELSE h[x]]

\* http.Header.Add.
HeaderAdd(h, key, value) ==
    LET k == CanonicalMIMEHeaderKey(key) IN
    IF k \in DOMAIN h THEN [h EXCEPT ![k] = Append(@, value)]
    ELSE [x \in DOMAIN h \cup {k} |-> IF x = k THEN <<value>> ELSE h[x]]

\* --------------------------------------------------- parseWindowsHeaders
StatusKey == <<"s", "t", "a", "t", "u", "s">>

\* ParseHeaderLine with the result of strconv.Atoi used whether or not it failed.
ParseHeaderLine_IgnoreAtoiErr(l, h, st) ==
    LET i == IndexByte(l, Colon) IN
    IF i = 0 THEN [headers |-> h, statusCode |-> st]
    ELSE LET key == TrimSpace(SubSeq(l, 1, i - 1))
             value == TrimSpace(SubSeq(l, i + 1, Len(l)))
         IN  IF ToLower(key) = StatusKey
             THEN IF Len(value) >= 3
                  THEN [headers |-> h,
                        statusCode |-> IF AtoiOk(SubSeq(value, 1, 3))
                                       THEN Atoi(SubSeq(value, 1, 3)) ELSE 0]
                  ELSE [headers |-> h, statusCode |-> st]
             ELSE [headers |-> HeaderAdd(h, key, value), statusCode |-> st]

\* ParseHeaderLine with a line without a colon taken as a header of empty value.
ParseHeaderLine_NoSkip(l, h, st) ==
    LET i == IndexByte(l, Colon) IN
    IF i = 0 THEN [headers |-> HeaderAdd(h, TrimSpace(l), <<>>), statusCode |-> st]
    ELSE LET key == TrimSpace(SubSeq(l, 1, i - 1))
             value == TrimSpace(SubSeq(l, i + 1, Len(l)))
         IN  IF ToLower(key) = StatusKey
             THEN IF Len(value) >= 3 /\ AtoiOk(SubSeq(value, 1, 3))
                  THEN [headers |-> h, statusCode |-> Atoi(SubSeq(value, 1, 3))]
                  ELSE [headers |-> h, statusCode |-> st]
             ELSE [headers |-> HeaderAdd(h, key, value), statusCode |-> st]

\* The body of the loop of parseWindowsHeaders for one non-empty line: the header
\* mapping and status after the line.
ParseHeaderLine(l, h, st) ==
    LET i == IndexByte(l, Colon) IN
    IF i = 0 THEN [headers |-> h, statusCode |-> st]
    ELSE LET key == TrimSpace(SubSeq(l, 1, i - 1))
             value == TrimSpace(SubSeq(l, i + 1, Len(l)))
         IN  IF ToLower(key) = StatusKey
             THEN IF Len(value) >= 3 /\ AtoiOk(SubSeq(value, 1, 3))
                  THEN [headers |-> h, statusCode |-> Atoi(SubSeq(value, 1, 3))]
                  ELSE [headers |-> h, statusCode |-> st]
             ELSE [headers |-> HeaderAdd(h, key, value), statusCode |-> st]

\* The statements of ServeHTTP with the body copied before the headers are set.
Steps_BodyFirst == <<"read", "drain", "body", "headers", "status", "wait", "done">>

\* The statements of ServeHTTP without cmd.Wait.
Steps_NoWait == <<"read", "drain", "headers", "status", "body", "done">>

\* The order of the statements of ServeHTTP once the subprocess runs.
Steps == <<"read", "drain", "headers", "status", "body", "wait", "done">>
NextPc(p) == Steps[(CHOOSE i \in 1..Len(Steps) : Steps[i] = p) + 1]

\* What is written to the response.
HeaderEvent(k, v) == [ev |-> "header", key |-> k, val |-> v, code |-> 0]
StatusEvent(c) == [ev |-> "status", key |-> <<>>, val |-> <<>>, code |-> c]
BodyEvent(bs) == [ev |-> "body", key |-> <<>>, val |-> bs, code |-> 0]
\* "CGI error: %v" and "CGI header error: %v", without the text of the error.
MsgCGIError == <<"C", "G", "I", " ", "e", "r", "r", "o", "r", ":", " ">>
MsgHeaderError ==
    <<"C", "G", "I", " ", "h", "e", "a", "d", "e", "r", " ", "e", "r", "r", "o", "r", ":", " ">>
\* http.Error(rw, msg, c): an error page with the given text and status.
HttpError(msg, c) == [ev |-> "error", key |-> <<>>, val |-> msg, code |-> c]
\* The error page of a failure of parseWindowsHeaders.
ErrorEvent(c) == HttpError(MsgHeaderError, c)

\* readWindowsLine returns l to parseWindowsHeaders: an empty line ends the
\* header block, any other line is parsed and the loop reads on.
LineReturned(l) ==
    /\ linesRead' = Append(linesRead, l)
    /\ line' = <<>>
    /\ IF Len(l) = 0
       THEN /\ pc' = NextPc("read")
            /\ UNCHANGED <<headers, statusCode>>
       ELSE /\ pc' = "read"
            /\ headers' = ParseHeaderLine(l, headers, statusCode).headers
            /\ statusCode' = ParseHeaderLine(l, headers, statusCode).statusCode
    /\ UNCHANGED resp

\* The subprocess has closed its end of stdout.
StdoutClosed == procState = "exited"

\* ------------------------------------------------------------ actions
\* The faults of a request: none, a failure of cmd.StdoutPipe, of
\* cmd.StderrPipe or of cmd.Start, or a client that goes away while the body
\* is copied.
Faults == {"none", "stdoutPipe", "stderrPipe", "start", "disconnect"}

\* The check of the error of cmd.Start left out.
SetupFails_StartUnchecked(f) == f \in {"stdoutPipe", "stderrPipe"}

\* One of the three "if err != nil { http.Error(...); return }" is taken.
SetupFails(f) == f \in {"stdoutPipe", "stderrPipe", "start"}

\* The pipe ends the gateway holds when ServeHTTP has got past cmd.Start or
\* has returned before: cmd.StdoutPipe and cmd.StderrPipe each open a pipe,
\* a failing cmd.Start closes what was opened, a return before cmd.Start
\* closes nothing.
PipesAfterSetup(f) ==
    IF f = "stdoutPipe" THEN {}
    ELSE IF f = "stderrPipe" THEN {"stdout"}
    ELSE IF f = "start" THEN {}
    ELSE {"stdout", "stderr"}

\* ServeHTTP up to cmd.Start: the command is built, the pipes are created and
\* the subprocess starts; if one of the three fails, the error page is
\* written and ServeHTTP returns.
Start ==
    /\ pc = "idle"
    /\ IF SetupFails(fault)
       THEN /\ pc' = "failed"
            /\ resp' = Append(resp, HttpError(MsgCGIError, StatusInternalServerError))
            /\ UNCHANGED procState
       ELSE /\ pc' = "read"
            /\ procState' = "running"
            /\ UNCHANGED resp
    /\ openPipes' = PipesAfterSetup(fault)
    /\ UNCHANGED <<prog, stream, stdoutPipe, stderrPipe, hasStderr, drainer, sinkLen,
                   pipesClosed, line, linesRead, headers, statusCode, ranged>>
    /\ UNCHANGED <<fault, pooled>>

\* The subprocess writes the next item of its script; a write to a full pipe blocks.
SubWrite ==
    /\ procState = "running"
    /\ prog # <<>>
    /\ IF Head(prog) = ERR
       THEN /\ stderrPipe < PipeCap
            /\ stderrPipe' = stderrPipe + 1
            /\ UNCHANGED stdoutPipe
       ELSE /\ Len(stdoutPipe) < PipeCap
            /\ stdoutPipe' = Append(stdoutPipe, Head(prog))
            /\ UNCHANGED stderrPipe
    /\ prog' = Tail(prog)
    /\ UNCHANGED <<stream, procState, pc, hasStderr, drainer, sinkLen, pipesClosed,
                   line, linesRead, headers, statusCode, ranged, resp>>

\* The subprocess has written everything and exits, closing its pipe ends.
SubExit ==
    /\ procState = "running"
    /\ prog = <<>>
    /\ procState' = "exited"
    /\ UNCHANGED <<prog, stream, stdoutPipe, stderrPipe, pc, hasStderr, drainer,
                   sinkLen, pipesClosed, line, linesRead, headers, statusCode, ranged,
                   resp>>

\* One iteration of the loop of readWindowsLine, from reader.ReadByte. The read
\* blocks while the pipe is empty and open.
ReadByte ==
    /\ pc = "read"
    /\ IF stdoutPipe # <<>>
       THEN /\ stdoutPipe' = Tail(stdoutPipe)
            /\ IF Head(stdoutPipe) = LF
               THEN LineReturned(line)
               ELSE IF Head(stdoutPipe) = CR
               THEN /\ pc' = "peek"
                    /\ UNCHANGED <<line, linesRead, headers, statusCode, resp>>
               ELSE /\ line' = Append(line, Head(stdoutPipe))
                    /\ UNCHANGED <<pc, linesRead, headers, statusCode, resp>>
       ELSE /\ StdoutClosed
            /\ UNCHANGED stdoutPipe
            /\ IF Len(line) > 0
               THEN LineReturned(line)
               ELSE \* io.EOF: parseWindowsHeaders fails, ServeHTTP answers 500 and returns
                    /\ pc' = "failed"
                    /\ resp' = Append(resp, ErrorEvent(StatusInternalServerError))
                    /\ UNCHANGED <<line, linesRead, headers, statusCode>>
    /\ UNCHANGED <<prog, stream, procState, stderrPipe, hasStderr, drainer, sinkLen,
                   pipesClosed, ranged>>

\* readWindowsLine after a CR: reader.Peek(2), which blocks until two bytes
\* are there or the stream ends, and fails when fewer than two are left.
Peek ==
    /\ pc = "peek"
    /\ Len(stdoutPipe) >= 2 \/ StdoutClosed
    /\ IF Len(stdoutPipe) >= 2 /\ stdoutPipe[1] = CR /\ stdoutPipe[2] = LF
       THEN /\ stdoutPipe' = Tail(Tail(stdoutPipe))
            /\ LineReturned(line)
       ELSE IF Len(stdoutPipe) >= 2 /\ stdoutPipe[1] = LF
       THEN /\ stdoutPipe' = Tail(stdoutPipe)
            /\ LineReturned(line)
       ELSE /\ line' = Append(line, CR)
            /\ pc' = "read"
            /\ UNCHANGED <<stdoutPipe, linesRead, headers, statusCode, resp>>
    /\ UNCHANGED <<prog, stream, procState, stderrPipe, hasStderr, drainer, sinkLen,
                   pipesClosed, ranged>>

\* "if h.Stderr != nil { go func() { io.Copy(h.Stderr, stderr) }() }"
StartDrain ==
    /\ pc = "drain"
    /\ drainer' = IF hasStderr THEN "running" ELSE drainer
    /\ pc' = NextPc("drain")
    /\ UNCHANGED <<prog, stream, procState, stdoutPipe, stderrPipe, hasStderr, sinkLen,
                   pipesClosed, line, linesRead, headers, statusCode, ranged, resp>>

\* The io.Copy of the stderr goroutine: it moves what the pipe holds into h.Stderr
\* and ends at end-of-stream or when the pipe has been closed under it.
DrainStep ==
    /\ drainer = "running"
    /\ IF pipesClosed
       THEN drainer' = "done" /\ UNCHANGED <<stderrPipe, sinkLen>>
       ELSE IF stderrPipe > 0
       THEN /\ sinkLen' = sinkLen + stderrPipe
            /\ stderrPipe' = 0
            /\ UNCHANGED drainer
       ELSE /\ procState = "exited"
            /\ drainer' = "done"
            /\ UNCHANGED <<stderrPipe, sinkLen>>
    /\ UNCHANGED <<prog, stream, procState, stdoutPipe, pc, hasStderr, pipesClosed,
                   line, linesRead, headers, statusCode, ranged, resp>>

\* One round of "for key, values := range headers": a key the loop has not
\* visited, in the order the map yields (any), every value of it added.
ApplyHeader ==
    /\ pc = "headers"
    /\ \E k \in DOMAIN headers \ ranged :
          /\ resp' = resp \o [i \in 1..Len(headers[k]) |-> HeaderEvent(k, headers[k][i])]
          /\ ranged' = ranged \cup {k}
    /\ UNCHANGED <<prog, stream, procState, stdoutPipe, stderrPipe, pc, hasStderr,
                   drainer, sinkLen, pipesClosed, line, linesRead, headers, statusCode>>

\* The range loop ends.
HeadersApplied ==
    /\ pc = "headers"
    /\ DOMAIN headers \ ranged = {}
    /\ pc' = NextPc("headers")
    /\ UNCHANGED <<prog, stream, procState, stdoutPipe, stderrPipe, hasStderr, drainer,
                   sinkLen, pipesClosed, line, linesRead, headers, statusCode, ranged,
                   resp>>

\* "if statusCode != 0 { rw.WriteHeader(statusCode) }"
WriteStatus ==
    /\ pc = "status"
    /\ resp' = IF statusCode # 0 THEN Append(resp, StatusEvent(statusCode)) ELSE resp
    /\ pc' = NextPc("status")
    /\ UNCHANGED <<prog, stream, procState, stdoutPipe, stderrPipe, hasStderr, drainer,
                   sinkLen, pipesClosed, line, linesRead, headers, statusCode, ranged>>

\* io.Copy(rw, bodyReader): each read takes what the reader holds, the copy
\* ends at end-of-stream, or at a write that fails because the client is gone.
CopyBody ==
    /\ pc = "body"
    /\ IF stdoutPipe # <<>>
       THEN /\ stdoutPipe' = <<>>
            /\ \/ /\ resp' = Append(resp, BodyEvent(stdoutPipe))
                  /\ UNCHANGED pc
               \/ /\ fault = "disconnect"
                  /\ pc' = NextPc("body")
                  /\ UNCHANGED resp
       ELSE /\ StdoutClosed
            /\ pc' = NextPc("body")
            /\ UNCHANGED <<stdoutPipe, resp>>
    /\ UNCHANGED <<prog, stream, procState, stderrPipe, hasStderr, drainer, sinkLen,
                   pipesClosed, line, linesRead, headers, statusCode, ranged>>

\* cmd.Wait: returns once the subprocess has exited, and closes the pipes.
Wait ==
    /\ pc = "wait"
    /\ procState = "exited"
    /\ pipesClosed' = TRUE
    /\ openPipes' = {}
    /\ pc' = NextPc("wait")
    /\ UNCHANGED <<prog, stream, procState, stdoutPipe, stderrPipe, hasStderr, drainer,
                   sinkLen, line, linesRead, headers, statusCode, ranged, resp>>
    /\ UNCHANGED <<fault, pooled>>

\* WindowsCGIHandler.ServeHTTP has returned to CGI.ServeHTTP, which returns:
\* the deferred bufPool.Put(errorBuffer) runs.
PutErrorBuffer ==
    /\ pc \in {"done", "failed"}
    /\ ~pooled
    /\ pooled' = TRUE
    /\ UNCHANGED <<gwVars, fault, openPipes>>

\* The gateway before a request, for a program that writes s to stdout and
\* follows the script p.
GatewayInit(p, s, sink) ==
    /\ prog = p
    /\ stream = s
    /\ procState = "none"
    /\ stdoutPipe = <<>>
    /\ stderrPipe = 0
    /\ pc = "idle"
    /\ hasStderr = sink
    /\ drainer = "none"
    /\ sinkLen = 0
    /\ pipesClosed = FALSE
    /\ line = <<>>
    /\ linesRead = <<>>
    /\ headers = EmptyHeader
    /\ statusCode = DefaultStatus
    /\ ranged = {}
    /\ resp = <<>>

\* The resources before a request that meets the fault f.
LifeInit(f) ==
    /\ fault = f
    /\ openPipes = {}
    /\ pooled = FALSE

\* ================================================== CGI.ServeHTTP (cgi.go)
VARIABLES
    rpc,              \* position of CGI.ServeHTTP
    origBody,         \* the bytes of the request body as the client sent them
    wasChunked,       \* the request arrived with chunked transfer encoding
    bufferLimit,      \* c.BufferLimit
    unread,           \* what is still to be read from the original r.Body
    buf,              \* the pooled bytes.Buffer
    size,             \* the local size
    tempExists,       \* the temporary file is on disk
    tempOpen,         \* the temporary file is open
    tempContent,      \* the bytes of the temporary file
    tempOffset,       \* the read/write offset of the temporary file
    body,             \* what r.Body is: "orig" | "mem" | "file"
    transferEncoding, \* r.TransferEncoding
    teHeader,         \* r.Header has a Transfer-Encoding entry
    contentLength,    \* r.ContentLength
    clHeader,         \* the values of r.Header["Content-Length"]
    failed,           \* CGI.ServeHTTP returns an error
    stdin,            \* the bytes handed to the subprocess on stdin
    stdinWired,       \* cmd.Stdin has been set to the request body
    envContentLength  \* the value of CONTENT_LENGTH in the subprocess environment

rfVars == <<rpc, origBody, wasChunked, bufferLimit, unread, buf, size, tempExists,
            tempOpen, tempContent, tempOffset, body, transferEncoding, teHeader,
            contentLength, clHeader, failed, stdin, stdinWired, envContentLength>>

\* Longest request body and largest buffer limit enumerated by InitReframe.
MaxBody == 3
MaxLimit == 3

Chunked == "chunked"

Min(a, b) == IF a < b THEN a ELSE b

\* The test of the full buffer mistaken for "more than the limit was read".
NeedsTempFile_Gt(sz, limit) == sz > limit

\* "if size == c.BufferLimit": the buffer is full, there is probably more.
NeedsTempFile(sz, limit) == sz = limit

\* "size = remainingSize": the bytes already buffered are not counted.
TotalSize_Overwrite(sz, remaining) == remaining

\* "size += remainingSize"
TotalSize(sz, remaining) == sz + remaining

\* The bytes a reader of r.Body gets.
BodyBytes ==
    IF body = "mem" THEN buf
    ELSE IF body = "file" THEN SubSeq(tempContent, tempOffset + 1, Len(tempContent))
    ELSE unread

\* An error return: the deferred calls run in Return.
ReturnErr ==
    /\ rpc' = "return"
    /\ failed' = TRUE

\* "if len(r.TransferEncoding) > 0 && r.TransferEncoding[0] == "chunked""
CheckChunked ==
    /\ rpc = "start"
    /\ rpc' = IF Len(transferEncoding) > 0 /\ transferEncoding[1] = Chunked
              THEN "copyN" ELSE "serve"
    /\ UNCHANGED <<origBody, wasChunked, bufferLimit, unread, buf, size, tempExists,
                   tempOpen, tempContent, tempOffset, body, transferEncoding, teHeader,
                   contentLength, clHeader, failed, stdin, stdinWired, envContentLength>>

\* "size, err := io.CopyN(buf, r.Body, c.BufferLimit)": up to the limit is
\* read into the buffer; a read error other than io.EOF is returned.
CopyN ==
    /\ rpc = "copyN"
    /\ \E ok \in BOOLEAN :
          IF ok
          THEN /\ buf' = SubSeq(unread, 1, Min(Len(unread), bufferLimit))
               /\ unread' = SubSeq(unread, Min(Len(unread), bufferLimit) + 1, Len(unread))
               /\ size' = Min(Len(unread), bufferLimit)
               /\ rpc' = IF NeedsTempFile(Min(Len(unread), bufferLimit), bufferLimit)
                         THEN "createTemp" ELSE "setMem"
               /\ UNCHANGED failed
          ELSE /\ ReturnErr
               /\ UNCHANGED <<buf, unread, size>>
    /\ UNCHANGED <<origBody, wasChunked, bufferLimit, tempExists, tempOpen, tempContent,
                   tempOffset, body, transferEncoding, teHeader, contentLength, clHeader,
                   stdin, stdinWired, envContentLength>>

\* os.CreateTemp, then the deferred os.Remove and tempfile.Close are registered.
CreateTemp ==
    /\ rpc = "createTemp"
    /\ \E ok \in BOOLEAN :
          IF ok
          THEN /\ tempExists' = TRUE
               /\ tempOpen' = TRUE
               /\ tempContent' = <<>>
               /\ tempOffset' = 0
               /\ rpc' = "writeTemp"
               /\ UNCHANGED failed
          ELSE /\ ReturnErr
               /\ UNCHANGED <<tempExists, tempOpen, tempContent, tempOffset>>
    /\ UNCHANGED <<origBody, wasChunked, bufferLimit, unread, buf, size, body,
                   transferEncoding, teHeader, contentLength, clHeader, stdin, stdinWired,
                   envContentLength>>

\* "tempfile.Write(buf.Bytes())"
WriteTemp ==
    /\ rpc = "writeTemp"
    /\ \E ok \in BOOLEAN :
          IF ok
          THEN /\ tempContent' = SubSeq(tempContent, 1, tempOffset) \o buf
               /\ tempOffset' = tempOffset + Len(buf)
               /\ rpc' = "copyRest"
               /\ UNCHANGED failed
          ELSE /\ ReturnErr
               /\ UNCHANGED <<tempContent, tempOffset>>
    /\ UNCHANGED <<origBody, wasChunked, bufferLimit, unread, buf, size, tempExists,
                   tempOpen, body, transferEncoding, teHeader, contentLength, clHeader,
                   stdin, stdinWired, envContentLength>>

\* "remainingSize, err := io.CopyBuffer(tempfile, r.Body, buf.Bytes())" and
\* "size += remainingSize"
CopyRest ==
    /\ rpc = "copyRest"
    /\ \E ok \in BOOLEAN :
          IF ok
          THEN /\ tempContent' = SubSeq(tempContent, 1, tempOffset) \o unread
               /\ tempOffset' = tempOffset + Len(unread)
               /\ unread' = <<>>
               /\ size' = TotalSize(size, Len(unread))
               /\ rpc' = "seek"
               /\ UNCHANGED failed
          ELSE /\ ReturnErr
               /\ UNCHANGED <<tempContent, tempOffset, unread, size>>
    /\ UNCHANGED <<origBody, wasChunked, bufferLimit, buf, tempExists, tempOpen, body,
                   transferEncoding, teHeader, contentLength, clHeader, stdin, stdinWired,
                   envContentLength>>

\* "tempfile.Seek(0, io.SeekStart)"
SeekStart ==
    /\ rpc = "seek"
    /\ \E ok \in BOOLEAN :
          IF ok
          THEN /\ tempOffset' = 0
               /\ rpc' = "setFile"
               /\ UNCHANGED failed
          ELSE /\ ReturnErr
               /\ UNCHANGED tempOffset
    /\ UNCHANGED <<origBody, wasChunked, bufferLimit, unread, buf, size, tempExists,
                   tempOpen, tempContent, body, transferEncoding, teHeader,
                   contentLength, clHeader, stdin, stdinWired, envContentLength>>

\* "r.Body = tempfile"
SetBodyFile ==
    /\ rpc = "setFile"
    /\ body' = "file"
    /\ rpc' = "clear"
    /\ UNCHANGED <<origBody, wasChunked, bufferLimit, unread, buf, size, tempExists,
                   tempOpen, tempContent, tempOffset, transferEncoding, teHeader,
                   contentLength, clHeader, failed, stdin, stdinWired, envContentLength>>

\* "r.Body = io.NopCloser(buf)"
SetBodyMem ==
    /\ rpc = "setMem"
    /\ body' = "mem"
    /\ rpc' = "clear"
    /\ UNCHANGED <<origBody, wasChunked, bufferLimit, unread, buf, size, tempExists,
                   tempOpen, tempContent, tempOffset, transferEncoding, teHeader,
                   contentLength, clHeader, failed, stdin, stdinWired, envContentLength>>

\* The request is not chunked any more: r.TransferEncoding = nil, the header is
\* deleted, Content-Length is added and r.ContentLength set.
ClearChunked ==
    /\ rpc = "clear"
    /\ transferEncoding' = <<>>
    /\ teHeader' = FALSE
    /\ clHeader' = Append(clHeader, FormatInt(size))
    /\ contentLength' = size
    /\ rpc' = "serve"
    /\ UNCHANGED <<origBody, wasChunked, bufferLimit, unread, buf, size, tempExists,
                   tempOpen, tempContent, tempOffset, body, failed, stdin, stdinWired,
                   envContentLength>>

\* The request body wired to stdin whatever the content length.
WiresStdin_Always(cl) == TRUE

\* "if req.ContentLength != 0 { cmd.Stdin = req.Body }"
WiresStdin(cl) == cl # 0

\* cgiHandler.ServeHTTP: the environment gets CONTENT_LENGTH from
\* req.ContentLength, and the body is the stdin of the subprocess when
\* req.ContentLength != 0.
Serve ==
    /\ rpc = "serve"
    /\ envContentLength' = FormatInt(contentLength)
    /\ stdinWired' = WiresStdin(contentLength)
    /\ stdin' = IF WiresStdin(contentLength) THEN BodyBytes ELSE <<>>
    /\ rpc' = "return"
    /\ UNCHANGED <<origBody, wasChunked, bufferLimit, unread, buf, size, tempExists,
                   tempOpen, tempContent, tempOffset, body, transferEncoding, teHeader,
                   contentLength, clHeader, failed>>

\* CGI.ServeHTTP returns; the deferred tempfile.Close and os.Remove run.
Return ==
    /\ rpc = "return"
    /\ tempOpen' = FALSE
    /\ tempExists' = FALSE
    /\ rpc' = "returned"
    /\ UNCHANGED <<origBody, wasChunked, bufferLimit, unread, buf, size, tempContent,
                   tempOffset, body, transferEncoding, teHeader, contentLength, clHeader,
                   failed, stdin, stdinWired, envContentLength>>

\* A request with body b and buffer limit l as net/http hands it over: a
\* chunked request has its encoding in r.TransferEncoding, an unknown length
\* (-1) and no Content-Length header; any other has its length declared.
ReframeInit(b, l, ch, pos) ==
    /\ rpc = pos
    /\ origBody = b
    /\ wasChunked = ch
    /\ bufferLimit = l
    /\ unread = b
    /\ buf = <<>>
    /\ size = 0
    /\ tempExists = FALSE
    /\ tempOpen = FALSE
    /\ tempContent = <<>>
    /\ tempOffset = 0
    /\ body = "orig"
    /\ transferEncoding = IF ch THEN <<Chunked>> ELSE <<>>
    /\ teHeader = FALSE
    /\ contentLength = IF ch THEN 0 - 1 ELSE Len(b)
    /\ clHeader = IF ch THEN <<>> ELSE <<FormatInt(Len(b))>>
    /\ failed = FALSE
    /\ stdin = <<>>
    /\ stdinWired = FALSE
    /\ envContentLength = <<>>

\* ============================================ buildEnv (windows_cgi.go)
VARIABLES
    epc,        \* position of buildEnv
    reqHeader,  \* req.Header: name -> values
    hEnv,       \* h.Env
    inheritEnv, \* h.InheritEnv
    osPath,     \* os.Getenv("PATH")
    envRanged,  \* names of req.Header the range loop has visited
    env         \* the environment built so far: a sequence of [key, val]

envVars == <<epc, reqHeader, hEnv, inheritEnv, osPath, envRanged, env>>

K_REQUEST_METHOD == <<"R", "E", "Q", "U", "E", "S", "T", "_", "M", "E", "T", "H", "O", "D">>
K_SCRIPT_NAME == <<"S", "C", "R", "I", "P", "T", "_", "N", "A", "M", "E">>
K_PATH_INFO == <<"P", "A", "T", "H", "_", "I", "N", "F", "O">>
K_QUERY_STRING == <<"Q", "U", "E", "R", "Y", "_", "S", "T", "R", "I", "N", "G">>
K_CONTENT_TYPE == <<"C", "O", "N", "T", "E", "N", "T", "_", "T", "Y", "P", "E">>
K_CONTENT_LENGTH == <<"C", "O", "N", "T", "E", "N", "T", "_", "L", "E", "N", "G", "T", "H">>
K_SERVER_NAME == <<"S", "E", "R", "V", "E", "R", "_", "N", "A", "M", "E">>
K_SERVER_PORT == <<"S", "E", "R", "V", "E", "R", "_", "P", "O", "R", "T">>
K_SERVER_PROTOCOL == <<"S", "E", "R", "V", "E", "R", "_", "P", "R", "O", "T", "O", "C", "O", "L">>
K_SERVER_SOFTWARE == <<"S", "E", "R", "V", "E", "R", "_", "S", "O", "F", "T", "W", "A", "R", "E">>
K_GATEWAY_INTERFACE == <<"G", "A", "T", "E", "W", "A", "Y", "_", "I", "N", "T", "E", "R", "F", "A", "C", "E">>
K_REMOTE_ADDR == <<"R", "E", "M", "O", "T", "E", "_", "A", "D", "D", "R">>
K_REMOTE_HOST == <<"R", "E", "M", "O", "T", "E", "_", "H", "O", "S", "T">>
K_SCRIPT_FILENAME == <<"S", "C", "R", "I", "P", "T", "_", "F", "I", "L", "E", "N", "A", "M", "E">>
K_SCRIPT_EXEC == <<"S", "C", "R", "I", "P", "T", "_", "E", "X", "E", "C">>
K_REMOTE_USER == <<"R", "E", "M", "O", "T", "E", "_", "U", "S", "E", "R">>
K_PATH == <<"P", "A", "T", "H">>
HTTP_ == <<"H", "T", "T", "P", "_">>

\* The request and server context of the model, fixed.
ReqMethod == <<"G", "E", "T">>
ReqPath == <<"/", "f", "o", "o">>
ReqHost == <<"h">>
ReqProto == <<"H", "T", "T", "P", "/", "1", ".", "1">>
ReqRemoteAddr == <<"1", ":", "2">>
Software == <<"c", "a", "d", "d", "y", "-", "c", "g", "i">>
Gateway == <<"C", "G", "I", "/", "1", ".", "1">>
Port80 == <<"8", "0">>

Entry(k, v) == [key |-> k, val |-> v]

\* The fixed variables of buildEnv, in order.
FixedEnv ==
    << Entry(K_REQUEST_METHOD, ReqMethod),
       Entry(K_SCRIPT_NAME, ReqPath),
       Entry(K_PATH_INFO, ReqPath),
       Entry(K_QUERY_STRING, <<>>),
       Entry(K_CONTENT_TYPE, <<>>),
       Entry(K_CONTENT_LENGTH, FormatInt(contentLength)),
       Entry(K_SERVER_NAME, ReqHost),
       Entry(K_SERVER_PORT, Port80),
       Entry(K_SERVER_PROTOCOL, ReqProto),
       Entry(K_SERVER_SOFTWARE, Software),
       Entry(K_GATEWAY_INTERFACE, Gateway),
       Entry(K_REMOTE_ADDR, ReqRemoteAddr),
       Entry(K_REMOTE_HOST, ReqRemoteAddr) >>

\* "key = strings.ToUpper(strings.ReplaceAll(key, "-", "_"))" and "HTTP_"+key
HeaderEnvKey(name) == HTTP_ \o ToUpper(ReplaceAll(name, "-", "_"))

\* The entries CGI.ServeHTTP puts in cgiHandler.Env with envAdd.
HandlerEnv ==
    << Entry(K_PATH_INFO, <<>>),
       Entry(K_SCRIPT_FILENAME, ReqPath),
       Entry(K_SCRIPT_NAME, ReqPath),
       Entry(K_SCRIPT_EXEC, ReqPath \o <<" ">>),
       Entry(K_REMOTE_USER, <<>>) >>

\* "env := []string{ ... }"
EnvFixed ==
    /\ epc = "fixed"
    /\ env' = FixedEnv
    /\ epc' = "headers"
    /\ UNCHANGED <<reqHeader, hEnv, inheritEnv, osPath, envRanged>>

\* One round of "for key, values := range req.Header", in the order the map
\* yields (any).
EnvHeader ==
    /\ epc = "headers"
    /\ \E name \in DOMAIN reqHeader \ envRanged :
          /\ env' = IF Len(reqHeader[name]) > 0
                    THEN Append(env, Entry(HeaderEnvKey(name), reqHeader[name][1]))
                    ELSE env
          /\ envRanged' = envRanged \cup {name}
    /\ UNCHANGED <<epc, reqHeader, hEnv, inheritEnv, osPath>>

\* "env = append(env, h.Env...)" once the range loop has ended.
EnvCustom ==
    /\ epc = "headers"
    /\ DOMAIN reqHeader \ envRanged = {}
    /\ env' = env \o hEnv
    /\ epc' = "inherit"
    /\ UNCHANGED <<reqHeader, hEnv, inheritEnv, osPath, envRanged>>

RECURSIVE Inherited(_, _)
\* The loop over h.InheritEnv: a variable with a non-empty value is appended.
Inherited(keys, getenv) ==
    IF keys = <<>> THEN <<>>
    ELSE (IF getenv # <<>> THEN <<Entry(Head(keys), getenv)>> ELSE <<>>)
           \o Inherited(Tail(keys), getenv)

\* "if h.InheritEnv != nil { ... }" and "return env"
EnvInherit ==
    /\ epc = "inherit"
    /\ env' = env \o Inherited(inheritEnv, osPath)
    /\ epc' = "done"
    /\ UNCHANGED <<reqHeader, hEnv, inheritEnv, osPath, envRanged>>

EnvInit(hdr, inh, path, pos) ==
    /\ epc = pos
    /\ reqHeader = hdr
    /\ hEnv = HandlerEnv
    /\ inheritEnv = inh
    /\ osPath = path
    /\ envRanged = {}
    /\ env = <<>>

\* ====================================================== instantWriter (cgi.go)
VARIABLES
    calls,    \* the calls made on the wrapped http.ResponseWriter, in order
    returns   \* what each call of instantWriter.Write returned

iwVars == <<calls, returns>>

\* Most calls of Write and longest slice written enumerated by SpecWriter.
MaxWrites == 3
MaxChunk == 2

WriteCall(len, n, err) == [op |-> "Write", len |-> len, n |-> n, err |-> err]
FlushCall == [op |-> "Flush", len |-> 0, n |-> 0, err |-> FALSE]

\* instantWriter.Write for a slice of len bytes of which the wrapped writer
\* takes n and reports err: the write, then the flush, then "return n, err".
Write ==
    /\ Len(returns) < MaxWrites
    /\ \E len \in 0..MaxChunk, n \in 0..MaxChunk, err \in BOOLEAN :
          /\ n <= len
          /\ ~err => n = len
          /\ calls' = calls \o <<WriteCall(len, n, err), FlushCall>>
          /\ returns' = Append(returns, [n |-> n, err |-> err])

\* The writer before its first call.
WriterInit ==
    /\ calls = <<>>
    /\ returns = <<>>

vars == <<gwVars, lifeVars, rfVars, envVars, iwVars>>

\* Each component at rest, for the specifications that exercise another.
GatewayOff == GatewayInit(<<>>, <<>>, TRUE) /\ LifeInit("none")
ReframeOff == ReframeInit(<<>>, 1, FALSE, "off")
EnvOff == EnvInit(EmptyHeader, <<>>, <<>>, "off")
WriterOff == WriterInit

\* ------------------------------------------------ specification: raw streams
\* The bytes of the raw streams: the terminator bytes, the separator, a letter.
RawBytes == {CR, LF, Colon, "a"}

\* Every stdout stream of at most MaxLen bytes; nothing on stderr; the stderr
\* sink CGI.ServeHTTP always sets (cgiHandler.Stderr = errorBuffer).
Init ==
    /\ \E s \in SeqsUpTo(RawBytes, MaxLen) : GatewayInit(s, s, TRUE)
    /\ LifeInit("none")
    /\ ReframeOff
    /\ EnvOff
    /\ WriterOff

\* A step of the gateway or of its subprocess.
Next ==
    \/ Start /\ UNCHANGED <<rfVars, envVars, iwVars>>
    \/ SubWrite /\ UNCHANGED <<lifeVars, rfVars, envVars, iwVars>>
    \/ SubExit /\ UNCHANGED <<lifeVars, rfVars, envVars, iwVars>>
    \/ ReadByte /\ UNCHANGED <<lifeVars, rfVars, envVars, iwVars>>
    \/ Peek /\ UNCHANGED <<lifeVars, rfVars, envVars, iwVars>>
    \/ StartDrain /\ UNCHANGED <<lifeVars, rfVars, envVars, iwVars>>
    \/ DrainStep /\ UNCHANGED <<lifeVars, rfVars, envVars, iwVars>>
    \/ ApplyHeader /\ UNCHANGED <<lifeVars, rfVars, envVars, iwVars>>
    \/ HeadersApplied /\ UNCHANGED <<lifeVars, rfVars, envVars, iwVars>>
    \/ WriteStatus /\ UNCHANGED <<lifeVars, rfVars, envVars, iwVars>>
    \/ CopyBody /\ UNCHANGED <<lifeVars, rfVars, envVars, iwVars>>
    \/ Wait /\ UNCHANGED <<rfVars, envVars, iwVars>>
    \/ PutErrorBuffer /\ UNCHANGED <<rfVars, envVars, iwVars>>

Spec == Init /\ [][Next]_vars

\* ------------------------------------------- specification: body reframing
BodyBytesSet == {"x", "y"}

InitReframe ==
    /\ \E b \in SeqsUpTo(BodyBytesSet, MaxBody), l \in 1..MaxLimit, ch \in BOOLEAN :
          ReframeInit(b, l, ch, "start")
    /\ GatewayOff
    /\ EnvOff
    /\ WriterOff

NextReframe ==
    \/ CheckChunked /\ UNCHANGED <<gwVars, lifeVars, envVars, iwVars>>
    \/ CopyN /\ UNCHANGED <<gwVars, lifeVars, envVars, iwVars>>
    \/ CreateTemp /\ UNCHANGED <<gwVars, lifeVars, envVars, iwVars>>
    \/ WriteTemp /\ UNCHANGED <<gwVars, lifeVars, envVars, iwVars>>
    \/ CopyRest /\ UNCHANGED <<gwVars, lifeVars, envVars, iwVars>>
    \/ SeekStart /\ UNCHANGED <<gwVars, lifeVars, envVars, iwVars>>
    \/ SetBodyFile /\ UNCHANGED <<gwVars, lifeVars, envVars, iwVars>>
    \/ SetBodyMem /\ UNCHANGED <<gwVars, lifeVars, envVars, iwVars>>
    \/ ClearChunked /\ UNCHANGED <<gwVars, lifeVars, envVars, iwVars>>
    \/ Serve /\ UNCHANGED <<gwVars, lifeVars, envVars, iwVars>>
    \/ Return /\ UNCHANGED <<gwVars, lifeVars, envVars, iwVars>>

SpecReframe == InitReframe /\ [][NextReframe]_vars

\* ------------------------------------------------- specification: buildEnv
\* Header names as net/http canonicalises them, and two values.
HdrNames == {<<"X", "-", "A">>, <<"X", "_", "a">>, <<"B">>}
HdrValues == {<<>>, <<<<"v">>>>, <<<<"w">>>>, <<<<"v">>, <<"w">>>>}

InitEnv ==
    /\ \E names \in SUBSET HdrNames :
          \E hdr \in [names -> HdrValues] :
             \E inh \in {<<>>, <<K_PATH>>}, path \in {<<>>, <<"/", "b">>} :
                EnvInit(hdr, inh, path, "fixed")
    /\ GatewayOff
    /\ ReframeOff
    /\ WriterOff

NextEnv ==
    \/ EnvFixed /\ UNCHANGED <<gwVars, lifeVars, rfVars, iwVars>>
    \/ EnvHeader /\ UNCHANGED <<gwVars, lifeVars, rfVars, iwVars>>
    \/ EnvCustom /\ UNCHANGED <<gwVars, lifeVars, rfVars, iwVars>>
    \/ EnvInherit /\ UNCHANGED <<gwVars, lifeVars, rfVars, iwVars>>

SpecEnv == InitEnv /\ [][NextEnv]_vars

\* ------------------------------------------- specification: Status lines
StatusNames == {<<"S", "t", "a", "t", "u", "s">>, <<" ", "s", "T", "A", "T", "U", "S", " ">>, <<"X">>}
StatusValBytes == {"4", "-", "x", " "}
Line404 == <<"S", "t", "a", "t", "u", "s", ":", " ", "4", "0", "4", " ", "N", "o", "t", " ", "F", "o", "u", "n", "d">>
StatusValues ==
    SeqsUpTo(StatusValBytes, MaxValLen) \cup {<<"a", "b", "c">>, <<" ", "4", "0", "4", " ", "N", "o", "t", " ", "F", "o", "u", "n", "d">>}

\* A header block of an optional "Status: 404 Not Found" line and one line
\* "name:value", terminated by LF or by CR LF, with a body of one byte.
InitStatus ==
    /\ \E first \in {<<>>, Line404}, n \in StatusNames, v \in StatusValues,
          t \in {<<LF>>, <<CR, LF>>} :
          LET s == (IF first = <<>> THEN <<>> ELSE first \o t)
                   \o n \o <<Colon>> \o v \o t \o t \o <<"x">>
          IN GatewayInit(s, s, TRUE)
    /\ LifeInit("none")
    /\ ReframeOff
    /\ EnvOff
    /\ WriterOff

SpecStatus == InitStatus /\ [][Next]_vars

\* -------------------------------------- specification: well-formed headers
\* Most header lines per block enumerated by InitHeaders.
MaxLines == 3

HeaderLines == {<<"a", ":", "1">>, <<"A", ":", "2">>, <<"a", ":", "2">>, <<"b", ":", "1">>}
Terminators == {<<LF>>, <<CR, LF>>, <<CR, CR, LF>>}

RECURSIVE Join(_, _)
\* Every line of ls followed by the terminator.
Join(ls, term) == IF ls = <<>> THEN <<>> ELSE Head(ls) \o term \o Join(Tail(ls), term)

\* Up to MaxLines lines "name:value" in one terminator style, the blank line,
\* and a body of no or one byte.
InitHeaders ==
    /\ \E ls \in SeqsUpTo(HeaderLines, MaxLines), term \in Terminators,
          b \in {<<>>, <<"x">>} :
          LET s == Join(ls, term) \o term \o b IN GatewayInit(s, s, TRUE)
    /\ LifeInit("none")
    /\ ReframeOff
    /\ EnvOff
    /\ WriterOff

SpecHeaders == InitHeaders /\ [][Next]_vars

\* ------------------------------------- specification: stdout and stderr
\* Longest subprocess script enumerated by InitPipes.
MaxScript == 4

IsStdoutByte(x) == x # ERR

\* Every script of at most MaxScript writes, each one stdout byte or one
\* stderr byte, with and without a stderr sink.
InitPipes ==
    /\ \E p \in SeqsUpTo({CR, LF, Colon, ERR}, MaxScript), sink \in BOOLEAN :
          GatewayInit(p, SelectSeq(p, IsStdoutByte), sink)
    /\ LifeInit("none")
    /\ ReframeOff
    /\ EnvOff
    /\ WriterOff

SpecPipes == InitPipes /\ [][Next]_vars

\* ------------------------------------------- specification: instantWriter
InitWriter ==
    /\ WriterInit
    /\ GatewayOff
    /\ ReframeOff
    /\ EnvInit(EmptyHeader, <<>>, <<>>, "off")

NextWriter ==
    \/ Write /\ UNCHANGED <<gwVars, lifeVars, rfVars, envVars>>

SpecWriter == InitWriter /\ [][NextWriter]_vars

\* --------------------------------------------- specification: faults
\* Every script of at most MaxScript writes under every fault, with the
\* stderr sink CGI.ServeHTTP sets.
InitFaults ==
    /\ \E p \in SeqsUpTo({CR, LF, Colon, ERR}, MaxScript), f \in Faults :
          /\ GatewayInit(p, SelectSeq(p, IsStdoutByte), TRUE)
          /\ LifeInit(f)
    /\ ReframeOff
    /\ EnvOff
    /\ WriterOff

SpecFaults == InitFaults /\ [][Next]_vars

\* ================================================================ claims
\* ------------------------------------------------ the reference line rule
\* The length of the line terminator s starts with, 0 if it starts with none:
\* LF, CR LF and CR CR LF each end a line.
TermLen(s) ==
    IF s[1] = LF THEN 1
    ELSE IF Len(s) >= 3 /\ s[1] = CR /\ s[2] = CR /\ s[3] = LF THEN 3
    ELSE IF Len(s) >= 2 /\ s[1] = CR /\ s[2] = LF THEN 2
    ELSE 0

RECURSIVE RefSplit(_, _)
\* The lines of s after the pending bytes cur, by the reference rule; an
\* unterminated trailing line is a line.
RefSplit(s, cur) ==
    IF s = <<>> THEN (IF cur = <<>> THEN <<>> ELSE <<cur>>)
    ELSE IF TermLen(s) > 0
         THEN <<cur>> \o RefSplit(SubSeq(s, TermLen(s) + 1, Len(s)), <<>>)
         ELSE RefSplit(Tail(s), Append(cur, s[1]))
RefLines(s) == RefSplit(s, <<>>)

RECURSIVE RefAfterBlank(_, _)
\* Whether s, after the pending bytes cur, has a blank line, and what follows
\* the terminator of the first one.
RefAfterBlank(s, cur) ==
    IF s = <<>> THEN [found |-> FALSE, body |-> <<>>]
    ELSE IF TermLen(s) > 0
         THEN IF cur = <<>>
              THEN [found |-> TRUE, body |-> SubSeq(s, TermLen(s) + 1, Len(s))]
              ELSE RefAfterBlank(SubSeq(s, TermLen(s) + 1, Len(s)), <<>>)
         ELSE RefAfterBlank(Tail(s), Append(cur, s[1]))
RefHasBlank(s) == RefAfterBlank(s, <<>>).found
RefBody(s) == RefAfterBlank(s, <<>>).body

\* The reference lines of the header block of s: those before the first blank line.
RefHeaderLines(s) ==
    LET ls == RefLines(s)
        n == CHOOSE i \in 1..Len(ls) : ls[i] = <<>> /\ \A j \in 1..(i - 1) : ls[j] # <<>>
    IN  SubSeq(ls, 1, n - 1)

IsPrefix(a, b) == Len(a) <= Len(b) /\ SubSeq(b, 1, Len(a)) = a

RECURSIVE FoldLines(_, _, _)
\* The header mapping and status after the lines ls, from h and st.
FoldLines(ls, h, st) ==
    IF ls = <<>> THEN [headers |-> h, statusCode |-> st]
    ELSE FoldLines(Tail(ls), ParseHeaderLine(Head(ls), h, st).headers,
                   ParseHeaderLine(Head(ls), h, st).statusCode)

\* parseWindowsHeaders has returned, with or without an error.
ParseReturned == pc \notin {"idle", "read", "peek"}

IsBodyEvent(e) == e.ev = "body"
IsHeaderEvent(e) == e.ev = "header"
\* The body bytes sent to the client.
RespBody == Cat([i \in 1..Len(SelectSeq(resp, IsBodyEvent)) |-> SelectSeq(resp, IsBodyEvent)[i].val])

\* C1: readWindowsLine yields the lines of the reference rule (LF, CR LF and
\* CR CR LF each end a line, any other CR is data, an unterminated last line
\* is returned, end-of-input only on an empty pending buffer), so that
\* parseWindowsHeaders fails only on a stream without a blank line and gives
\* the headers and status of the reference lines whatever terminators are used.
C1_ReferenceLines ==
    /\ IsPrefix(linesRead, RefLines(stream))
    /\ pc = "failed" => ~RefHasBlank(stream)
    /\ (ParseReturned /\ RefHasBlank(stream)) =>
          /\ headers = FoldLines(RefHeaderLines(stream), EmptyHeader, DefaultStatus).headers
          /\ statusCode = FoldLines(RefHeaderLines(stream), EmptyHeader, DefaultStatus).statusCode

\* C2: for a stream with a blank line, the body reader starts at the first
\* byte after the terminator of the first blank line, and the bytes copied to
\* the response body are exactly the rest of stdout, in order.
C2_BodyBoundary ==
    RefHasBlank(stream) =>
       /\ pc # "failed"
       /\ pc = "drain" => stdoutPipe \o SelectSeq(prog, IsStdoutByte) = RefBody(stream)
       /\ pc \in {"wait", "done"} => RespBody = RefBody(stream)

\* ----------------------------------------------------------- C3: Status
HasColon(l) == IndexByte(l, Colon) > 0
KeyOf(l) == TrimSpace(SubSeq(l, 1, IndexByte(l, Colon) - 1))
ValueOf(l) == TrimSpace(SubSeq(l, IndexByte(l, Colon) + 1, Len(l)))
IsStatusLine(l) == HasColon(l) /\ ToLower(KeyOf(l)) = StatusKey

\* Three characters that are an integer: three digits, or a sign and two digits.
IsInteger3(v) ==
    \/ IsDigit(v[1]) /\ IsDigit(v[2]) /\ IsDigit(v[3])
    \/ v[1] \in {"+", "-"} /\ IsDigit(v[2]) /\ IsDigit(v[3])
Integer3(v) ==
    IF IsDigit(v[1]) THEN 100 * DigitVal(v[1]) + 10 * DigitVal(v[2]) + DigitVal(v[3])
    ELSE IF v[1] = "-" THEN 0 - (10 * DigitVal(v[2]) + DigitVal(v[3]))
    ELSE 10 * DigitVal(v[2]) + DigitVal(v[3])
\* A Status line whose value sets the status.
SetsStatus(l) == IsStatusLine(l) /\ Len(ValueOf(l)) >= 3 /\ IsInteger3(ValueOf(l))

\* The status after the lines ls: that of the last Status line that sets one, else 200.
ExpectedStatus(ls) ==
    LET setting == {i \in 1..Len(ls) : SetsStatus(ls[i])} IN
    IF setting = {} THEN 200
    ELSE Integer3(ValueOf(ls[CHOOSE i \in setting : \A j \in setting : j <= i]))

\* C3: the status is 200 without a Status line; a line whose key is "status" in
\* any case sets it to the integer of the first three characters of its trimmed
\* value; a shorter or non-integer value leaves the status as it was, without
\* failure; a Status line never enters the header mapping.
C3_Status ==
    /\ statusCode = ExpectedStatus(linesRead)
    /\ \A k \in DOMAIN headers : ToLower(k) # StatusKey
    /\ pc = "failed" => ~RefHasBlank(stream)

\* C3 witness: "Status: 404 Not Found", then a Status line that sets nothing:
\* the request is done with status 404 written.
C3_Witness ==
    /\ pc = "done"
    /\ Len(linesRead) = 3
    /\ linesRead[1] = Line404
    /\ IsStatusLine(linesRead[2]) /\ ~SetsStatus(linesRead[2])
    /\ statusCode = 404
    /\ \E i \in 1..Len(resp) : resp[i] = StatusEvent(404)

\* -------------------------------------------------- C4: malformed lines
\* C4: a non-empty line without a colon is skipped: the mapping and the status
\* are those of the other lines alone, parsing goes on after it, and
\* parseWindowsHeaders fails only where the stream has ended.
C4_MalformedSkipped ==
    /\ headers = FoldLines(SelectSeq(linesRead, HasColon), EmptyHeader, DefaultStatus).headers
    /\ statusCode = FoldLines(SelectSeq(linesRead, HasColon), EmptyHeader, DefaultStatus).statusCode
    /\ pc = "failed" => (stdoutPipe = <<>> /\ prog = <<>> /\ line = <<>>)
    /\ (linesRead # <<>> /\ linesRead[Len(linesRead)] # <<>>) => pc \in {"read", "peek", "failed"}

\* C4 witness: a line without a colon was read, a header line after it was
\* taken, and the request is done.
C4_Witness ==
    /\ pc = "done"
    /\ \E i \in 1..Len(linesRead) :
          /\ linesRead[i] # <<>> /\ ~HasColon(linesRead[i])
          /\ \E j \in (i + 1)..Len(linesRead) : HasColon(linesRead[j])
    /\ DOMAIN headers # {}

\* ------------------------------------------------- C5: header order
\* The (key, value) pairs of the well-formed lines ls, keys canonical.
RECURSIVE PairsOf(_)
PairsOf(ls) ==
    IF ls = <<>> THEN <<>>
    ELSE (IF HasColon(Head(ls)) /\ ~IsStatusLine(Head(ls))
          THEN <<[key |-> CanonicalMIMEHeaderKey(KeyOf(Head(ls))), val |-> ValueOf(Head(ls))]>>
          ELSE <<>>) \o PairsOf(Tail(ls))
\* The pairs the subprocess emitted.
Emitted == PairsOf(RefHeaderLines(stream))
\* The pairs added to the response, in order.
Added ==
    [i \in 1..Len(SelectSeq(resp, IsHeaderEvent)) |->
        [key |-> SelectSeq(resp, IsHeaderEvent)[i].key,
         val |-> SelectSeq(resp, IsHeaderEvent)[i].val]]

RECURSIVE ValuesOf(_, _)
\* The values of key k in the pairs ps, in order.
ValuesOf(ps, k) ==
    IF ps = <<>> THEN <<>>
    ELSE (IF Head(ps).key = k THEN <<Head(ps).val>> ELSE <<>>) \o ValuesOf(Tail(ps), k)

RECURSIVE DistinctKeys(_, _)
\* The keys of ps not in seen, in the order of their first occurrence.
DistinctKeys(ps, seen) ==
    IF ps = <<>> THEN <<>>
    ELSE IF Head(ps).key \in seen THEN DistinctKeys(Tail(ps), seen)
    ELSE <<Head(ps).key>> \o DistinctKeys(Tail(ps), seen \cup {Head(ps).key})

KeysOf(ps) == {ps[i].key : i \in 1..Len(ps)}
\* ServeHTTP has set every header.
HeadersSet == pc \in {"status", "body", "wait", "done"}

Rank(e) == IF e.ev = "header" THEN 1 ELSE IF e.ev = "status" THEN 2 ELSE 3
IsCGIEvent(e) == e.ev \in {"header", "status", "body"}
\* The blank line that ends the header block has been read.
BlankLineRead == linesRead # <<>> /\ linesRead[Len(linesRead)] = <<>>

\* C9: nothing the CGI program produced (header, status, body byte) reaches the
\* client before the blank line has been read; headers come before the status
\* and the status before the body; the status is written at most once.
C9_ResponseOrder ==
    /\ (\E i \in 1..Len(resp) : IsCGIEvent(resp[i])) => BlankLineRead
    /\ \A i, j \in 1..Len(resp) :
          (i < j /\ IsCGIEvent(resp[i]) /\ IsCGIEvent(resp[j])) => Rank(resp[i]) <= Rank(resp[j])
    /\ Cardinality({i \in 1..Len(resp) : resp[i].ev = "status"}) <= 1

\* C9 witness: a finished request that sent a header, the status and a body.
C9_Witness ==
    /\ pc = "done"
    /\ \E i, j, k \in 1..Len(resp) :
          i < j /\ j < k /\ resp[i].ev = "header" /\ resp[j].ev = "status" /\ resp[k].ev = "body"

\* --------------------------------------------------- C10: no deadlock
\* The subprocess is blocked writing to a full pipe.
SubprocessBlocked ==
    /\ procState = "running"
    /\ prog # <<>>
    /\ IF Head(prog) = ERR THEN stderrPipe >= PipeCap ELSE Len(stdoutPipe) >= PipeCap
\* The handler is blocked on the subprocess: reading stdout, or waiting for
\* the exit.
GatewayBlocked ==
    /\ procState = "running"
    /\ \/ pc \in {"read", "body"} /\ stdoutPipe = <<>>
       \/ pc = "peek" /\ Len(stdoutPipe) < 2
       \/ pc = "wait"
\* Nothing reads stderr.
NoDrain == drainer # "running"

\* C10: the gateway and the subprocess never wait for each other: never is the
\* subprocess blocked on a full pipe while the handler is blocked on the
\* subprocess and nothing drains stderr.
C10_NoDeadlock == ~(SubprocessBlocked /\ GatewayBlocked /\ NoDrain)

\* ------------------------------------------ C6: memory or temporary file
\* Reframing has run to its end without an I/O error.
Reframed == wasChunked /\ ~failed /\ rpc \in {"clear", "serve", "return", "returned"}

\* C6: a chunked body of size S under the limit L: if S < L the reframed body
\* is the memory buffer and no temporary file is ever created; if S >= L the
\* reframed body is the temporary file; the body is never the buffer while a
\* temporary file exists; and once CGI.ServeHTTP has returned, by whatever
\* path, the temporary file is closed and gone.
C6_BufferedBody ==
    /\ (wasChunked /\ Len(origBody) < bufferLimit) =>
          /\ ~tempExists /\ ~tempOpen
          /\ Reframed => body = "mem"
    /\ (Reframed /\ Len(origBody) >= bufferLimit) =>
          /\ body = "file"
          /\ rpc # "returned" => tempExists /\ tempOpen
    /\ body = "mem" => ~tempExists
    /\ body = "file" => wasChunked /\ Len(origBody) >= bufferLimit
    /\ rpc = "returned" => ~tempExists /\ ~tempOpen

\* C6 witness: a chunked body longer than the limit was spilled to the file,
\* served from it, and the request has returned.
C6_Witness ==
    /\ rpc = "returned"
    /\ wasChunked /\ ~failed
    /\ Len(origBody) > bufferLimit
    /\ body = "file"

\* ------------------------------------------------ C7: the reframed request
\* C7: after reframing a chunked body of size S, before the environment is
\* built: the request is not chunked any more, r.ContentLength is S, the
\* Content-Length header is the decimal S and nothing else, and the new body
\* reads as the original bytes; the subprocess then gets CONTENT_LENGTH = S
\* and the original bytes on stdin.
C7_Reframed ==
    /\ (wasChunked /\ rpc = "serve") =>
          /\ transferEncoding = <<>> /\ ~teHeader
          /\ contentLength = Len(origBody)
          /\ Len(clHeader) = 1 /\ AtoiOk(clHeader[1]) /\ Atoi(clHeader[1]) = Len(origBody)
          /\ BodyBytes = origBody
    /\ (wasChunked /\ ~failed /\ rpc \in {"return", "returned"}) =>
          /\ AtoiOk(envContentLength) /\ Atoi(envContentLength) = Len(origBody)
          /\ stdin = origBody

\* C7 witness: a chunked body longer than the limit is about to be served from
\* the temporary file.
C7_Witness ==
    /\ rpc = "serve"
    /\ wasChunked
    /\ Len(origBody) > bufferLimit
    /\ body = "file"
    /\ origBody # <<>>

\* ------------------------------------------------------ C8: HTTP_ variables
\* C8: for every request header name with a value, buildEnv emits exactly one
\* entry whose key is HTTP_ and the name in upper case with every dash made an
\* underscore, and whose value is the first value of the header; no such key
\* holds a dash.
C8_OneEntryPerHeader ==
    epc = "done" =>
       /\ \A name \in DOMAIN reqHeader :
             Len(reqHeader[name]) > 0 =>
                Cardinality({i \in 1..Len(env) :
                               /\ env[i].key = HTTP_ \o ToUpper(ReplaceAll(name, "-", "_"))
                               /\ env[i].val = reqHeader[name][1]}) = 1
       /\ \A i \in 1..Len(env) :
             IsPrefix(HTTP_, env[i].key) => \A j \in 1..Len(env[i].key) : env[i].key[j] # "-"

\* ------------------------------------------------- C11: release of resources
\* WindowsCGIHandler.ServeHTTP has returned.
HandlerReturned == pc \in {"done", "failed"}

\* C11: when the handler has returned, by whatever path, the gateway holds no
\* pipe end open, and once CGI.ServeHTTP has returned the temporary file is
\* closed and removed.
C11_Released ==
    /\ HandlerReturned => openPipes = {}
    /\ rpc = "returned" => (~tempExists /\ ~tempOpen)

\* ------------------------------------------------------ C12: setup failure
\* C12: if cmd.StdoutPipe, cmd.StderrPipe or cmd.Start fails, the request is
\* failed at once: the response is the 500 error page with the text of the
\* failure and nothing else, nothing was read from a subprocess, and no
\* subprocess runs.
C12_SetupFailure ==
    (fault \in {"stdoutPipe", "stderrPipe", "start"} /\ pc # "idle") =>
       /\ pc = "failed"
       /\ resp = <<HttpError(MsgCGIError, StatusInternalServerError)>>
       /\ procState = "none"
       /\ linesRead = <<>> /\ line = <<>>
       /\ drainer = "none"

\* C12 witness: cmd.StderrPipe failed for a program that would have written a
\* header block, and CGI.ServeHTTP has returned.
C12_Witness ==
    /\ fault = "stderrPipe"
    /\ pc = "failed"
    /\ pooled
    /\ Len(prog) >= 2
    /\ resp # <<>>

\* --------------------------------------------- C13: header-parse failure
\* The subprocess has closed stdout and the gateway has read all of it.
StdoutExhausted == procState = "exited" /\ stdoutPipe = <<>>

\* C13: parseWindowsHeaders fails exactly when stdout ends before a blank
\* line: a stream with a blank line never fails, a stream without one fails
\* once it is exhausted; on failure the response is the 500 error page alone,
\* with no header of the lines parsed so far and no body byte.
C13_ParseFailure ==
    /\ pc = "failed" =>
          /\ ~RefHasBlank(stream)
          /\ StdoutExhausted
          /\ resp = <<ErrorEvent(StatusInternalServerError)>>
    /\ (StdoutExhausted /\ ParseReturned /\ ~RefHasBlank(stream)) => pc = "failed"

\* ------------------------------------------------ C14: unique keys
\* C14: in the environment buildEnv returns (the fixed variables, the HTTP_
\* variables, the entries of h.Env that CGI.ServeHTTP set, the inherited
\* variables) no key occurs twice.
C14_UniqueKeys ==
    epc = "done" => \A i, j \in 1..Len(env) : env[i].key = env[j].key => i = j

\* ------------------------------------------------- C15: the stderr drain
\* C15: when the gateway is done and CGI.ServeHTTP looks at the error buffer,
\* the goroutine that copies stderr has ended and nothing the subprocess wrote
\* to stderr is left outside the sink; no stderr byte is in the response.
C15_DrainJoined ==
    /\ (pc = "done" /\ hasStderr) => (drainer = "done" /\ stderrPipe = 0)
    /\ \A i \in 1..Len(resp) : \A j \in 1..Len(resp[i].val) : resp[i].val[j] # ERR

Phase ==
    IF pc = "idle" THEN "Idle"
    ELSE IF pc \in {"read", "peek"} THEN "Spawned"
    ELSE IF pc \in {"drain", "headers", "status"} THEN "HeadersParsed"
    ELSE IF pc \in {"body", "wait"} THEN "StreamingBody"
    ELSE IF pc = "done" THEN "Done"
    ELSE "Failed"

\* The steps of the lifecycle: the next state, or Failed from a state that is
\* not terminal.
LifecycleSteps ==
    {<<"Idle", "Spawned">>, <<"Spawned", "HeadersParsed">>,
     <<"HeadersParsed", "StreamingBody">>, <<"StreamingBody", "Done">>,
     <<"Idle", "Failed">>, <<"Spawned", "Failed">>, <<"HeadersParsed", "Failed">>,
     <<"StreamingBody", "Failed">>}

\* The status line has been written: by rw.WriteHeader or by http.Error.
IsStatusLine1(e) == e.ev \in {"status", "error"}

\* C16: the lifecycle moves one state forward at a time or to Failed, never
\* out of Done or Failed; a subprocess is started at most once (from the state
\* Idle, and never again); the status line is written at most once; the
\* request is Done only when cmd.Wait has returned, the subprocess gone.
C16_Lifecycle ==
    /\ [][/\ Phase' # Phase => <<Phase, Phase'>> \in LifecycleSteps
          /\ (procState' = "running" /\ procState # "running") =>
                (procState = "none" /\ Phase = "Idle")
          /\ procState = "exited" => procState' = "exited"]_vars
    /\ [](Len(SelectSeq(resp, IsStatusLine1)) <= 1)
    /\ [](pc = "done" => (procState = "exited" /\ pipesClosed))

\* C16 witness: a request that went through every state: the status and a
\* body were written, the subprocess was waited for, the request is Done.
C16_Witness ==
    /\ pc = "done"
    /\ fault = "none"
    /\ \E i, j \in 1..Len(resp) : i < j /\ resp[i].ev = "status" /\ resp[j].ev = "body"
    /\ DOMAIN headers # {}
    /\ procState = "exited"

\* ------------------------------------------------------ C17: stdin wiring
\* The gateway has built the command for the request.
Served == ~failed /\ rpc \in {"return", "returned"}

\* C17: once the command is built, the request body is the stdin of the
\* subprocess if and only if r.ContentLength, as it is after reframing, is
\* not zero; before that nothing is wired. A chunked request with a body of
\* S > 0 bytes has the reframed body, the original bytes, on stdin; a chunked
\* request with an empty body has content length 0 and no stdin.
C17_StdinWiring ==
    /\ Served => (stdinWired <=> contentLength # 0)
    /\ ~Served => ~stdinWired
    /\ (Served /\ wasChunked /\ Len(origBody) > 0) => (stdinWired /\ stdin = origBody)
    /\ (Served /\ wasChunked /\ Len(origBody) = 0) => (contentLength = 0 /\ ~stdinWired)

\* C17 witness: a chunked request whose body went to the temporary file is
\* served with the file wired to stdin.
C17_Witness ==
    /\ Served /\ wasChunked
    /\ Len(origBody) > bufferLimit
    /\ stdinWired /\ body = "file"
    /\ stdin = origBody

\* ---------------------------------------------------- C18: instantWriter
IsWriteCall(c) == c.op = "Write"

\* C18: each call of instantWriter.Write returns the count and the error of
\* the write of the wrapped writer; a write is followed by a flush if and only
\* if it succeeded; the wrapped writer gets no other call.
C18_FlushIffSuccess ==
    /\ Len(SelectSeq(calls, IsWriteCall)) = Len(returns)
    /\ \A k \in 1..Len(returns) :
          /\ returns[k].n = SelectSeq(calls, IsWriteCall)[k].n
          /\ returns[k].err = SelectSeq(calls, IsWriteCall)[k].err
    /\ \A i \in 1..Len(calls) :
          /\ calls[i].op \in {"Write", "Flush"}
          /\ calls[i].op = "Write" =>
                ((i < Len(calls) /\ calls[i + 1].op = "Flush") <=> ~calls[i].err)
          /\ calls[i].op = "Flush" => (i > 1 /\ calls[i - 1].op = "Write")

\* -------------------------------------------------- C20: the status range
\* C20: every status code the gateway passes to rw.WriteHeader is a
\* three-digit status code, from 100 to 999.
C20_StatusRange ==
    \A i \in 1..Len(resp) : resp[i].ev = "status" => resp[i].code \in 100..999

====
